---- MODULE Spec2Model ----
(***************************************************************************)
(* A model of untl_to_zotero_rdf.py: the conversion of UNTL field bags     *)
(* into Zotero RDF presentation records.                                   *)
(*                                                                         *)
(* Python strings are TLA+ strings; TLC evaluates Len, SubSeq and \o on    *)
(* them, so splitting, stripping, substring tests and the meeting pattern  *)
(* are computed character by character.  A field bag (the dictionary that  *)
(* pyuntl returns) is a record with one sequence of entries per field; a   *)
(* field that is absent from the dictionary is the empty sequence, which   *)
(* is what every untl_data.get(field, []) of the source yields, and a      *)
(* missing qualifier or content key is "", the default of every            *)
(* entry.get(key, '').                                                     *)
(***************************************************************************)
EXTENDS Integers, Sequences, FiniteSets, TLC

VARIABLES
    \* ---- one record through the extractor and the builder
    untl_data,      \* the dictionary handed to ZoteroPresentation(...)
    record,         \* the ZoteroPresentation object (its attributes)
    presentation,   \* the element generate_record() returned
    phase,          \* "input" | "extracted" | "built"
    \* ---- the Python process: list objects and ZoteroXML instances
    lists,          \* list objects by identity; lists[DefaultList] is the
                    \* list the def of ZoteroXML.__init__ evaluated once
    instances,      \* the ZoteroXML objects: [records |-> a list identity]
    added,          \* history: per instance, what add_item_record was given
    \* ---- the file system
    cacheFile,      \* content of cached_untl_metadata.xml, or NoFile
    outFile,        \* content of the output path, or NoFile
    \* ---- the collection the library serves
    server,
    \* ---- the running main()
    pc,             \* position in main()
    args,           \* the parsed command line: [cache, year]
    untl_metadata,  \* the fetched payload
    tree,           \* the parsed metadata elements still to iterate
    zotero_xml,     \* index into instances of main's ZoteroXML()
    exitCode,       \* the process exit status, -1 while running
    run,            \* history of the current run
    prev            \* history of the previous completed run

vars == <<untl_data, record, presentation, phase, lists, instances, added,
          cacheFile, outFile, server, pc, args, untl_metadata, tree,
          zotero_xml, exitCode, run, prev>>

extractVars == <<untl_data, record, presentation, phase>>
heapVars == <<lists, instances, added>>
mainVars == <<cacheFile, server, pc, args, untl_metadata, tree, zotero_xml,
              exitCode, run, prev>>

-----------------------------------------------------------------------------
(* Bounds *)

\* entries per field of a field bag
MaxEntries == 2
\* metadata elements in one payload
MaxRecords == 2
\* ZoteroXML objects constructed in one process
MaxInstances == 3
\* add_item_record calls in one process
MaxAdds == 3

-----------------------------------------------------------------------------
(* Strings *)

Ch(s, i) == SubSeq(s, i, i)

Digits == {"0", "1", "2", "3", "4", "5", "6", "7", "8", "9"}

Whitespace == {" ", "\t", "\n"}

Min(S) == CHOOSE x \in S : \A y \in S : x <= y

Max(S) == CHOOSE x \in S : \A y \in S : x >= y

\* sub in s
Contains(sub, s) ==
    \E i \in 1..(Len(s) - Len(sub) + 1) : SubSeq(s, i, i + Len(sub) - 1) = sub

\* s.strip()
Strip(s) ==
    LET keep == {i \in 1..Len(s) : Ch(s, i) \notin Whitespace}
    IN  IF keep = {} THEN "" ELSE SubSeq(s, Min(keep), Max(keep))

\* s.rstrip('.')
RStripPeriods(s) ==
    LET keep == {i \in 1..Len(s) : Ch(s, i) # "."}
    IN  IF keep = {} THEN "" ELSE SubSeq(s, 1, Max(keep))

\* s.split(',', 1)
SplitFirstComma(s) ==
    LET commas == {i \in 1..Len(s) : Ch(s, i) = ","}
    IN  IF commas = {} THEN <<s>>
        ELSE <<SubSeq(s, 1, Min(commas) - 1),
               SubSeq(s, Min(commas) + 1, Len(s))>>

-----------------------------------------------------------------------------
(* Module constants *)

ACCESS_public ==
    "https://digital2.library.unt.edu/vocabularies/rights-access/#public"

\* the table is not consulted
ACCESS_get_raw(access) == access

\* ACCESS.get(access, access)
ACCESS_get(access) == IF access = "public" THEN ACCESS_public ELSE access

\* MEETING_PATTERN.search(s):
\*   (?P<meeting>.*\d{4})(?:[,.] (?P<locality>[^0-9]+))?
\* search() takes the leftmost start that matches; from it the greedy .*
\* runs to the last place (not crossing a newline) where four digits
\* follow, since the optional group after it can always match nothing; the
\* group then matches if "," or "." and a space and at least one non-digit
\* follow, and [^0-9]+ takes every non-digit up to the next digit or the end.
MEETING_PATTERN_search(s) ==
    LET n == Len(s)
        FourDigits(e) == \A k \in (e - 3)..e : Ch(s, k) \in Digits
        Ends(b) == {e \in (b + 3)..n :
                       /\ FourDigits(e)
                       /\ \A k \in b..(e - 4) : Ch(s, k) # "\n"}
        starts == {b \in 1..n : Ends(b) # {}}
    IN  IF starts = {} THEN [matched |-> FALSE]
        ELSE LET b == Min(starts)
                 e == Max(Ends(b))
                 grp == /\ e + 3 <= n
                        /\ Ch(s, e + 1) \in {",", "."}
                        /\ Ch(s, e + 2) = " "
                        /\ Ch(s, e + 3) \notin Digits
                 stop == Max({k \in (e + 3)..n :
                                \A j \in (e + 3)..k : Ch(s, j) \notin Digits})
             IN  [matched |-> TRUE,
                  meeting |-> SubSeq(s, b, e),
                  hasLocality |-> grp,
                  locality |-> IF grp THEN SubSeq(s, e + 3, stop) ELSE ""]

-----------------------------------------------------------------------------
(* ZoteroItem: the field extractors *)

\* the indices of the entries of a field whose qualifier is q
Qualified(entries, q) == {i \in 1..Len(entries) : entries[i].qualifier = q}

\* the contents of the entries with non-empty content, in order
RECURSIVE NonEmptyContents(_)
NonEmptyContents(entries) ==
    IF entries = <<>> THEN <<>>
    ELSE (IF Head(entries).content # "" THEN <<Head(entries).content>>
          ELSE <<>>) \o NonEmptyContents(Tail(entries))

get_about_uri(data) ==
    LET hits == Qualified(data.identifier, "itemURL")
    IN  IF hits = {} THEN "" ELSE data.identifier[Max(hits)].content

get_subjects(data) == NonEmptyContents(data.subject)

\* the scan stops at the first officialtitle entry even if it is empty
get_title_noskip(data) ==
    LET hits == Qualified(data.title, "officialtitle")
    IN  IF hits = {} THEN "" ELSE data.title[Min(hits)].content

get_title(data) ==
    LET hits == {i \in Qualified(data.title, "officialtitle") :
                    data.title[i].content # ""}
    IN  IF hits = {} THEN "" ELSE data.title[Min(hits)].content

get_abstract(data) ==
    LET hits == {i \in Qualified(data.description, "content") :
                    data.description[i].content # ""}
    IN  IF hits = {} THEN "" ELSE data.description[Min(hits)].content

get_creation_date(data) ==
    LET hits == {i \in Qualified(data.date, "creation") :
                    data.date[i].content # ""}
    IN  IF hits = {} THEN "" ELSE data.date[Min(hits)].content

get_access(data) ==
    LET hits == {i \in Qualified(data.rights, "access") :
                    data.rights[i].content # ""}
        access == IF hits = {} THEN "" ELSE data.rights[Min(hits)].content
    IN  ACCESS_get(access)

get_languages(data) == NonEmptyContents(data.language)

-----------------------------------------------------------------------------
(* ZoteroPresentation: presenters, relations, meeting, and the builder *)

\* the presenter the loop body appends for one creator name
Presenter(name) ==
    LET name_parts == SplitFirstComma(name)
    IN  [surname |-> Strip(name_parts[1]),
         given_name |-> IF Len(name_parts) = 2 THEN Strip(name_parts[2])
                        ELSE ""]

\* the name is not tested
IsPerson(creator) == creator.content.type = "per"

\* whether the loop body appends a presenter for this creator
IsPresenter(creator) ==
    creator.content.type = "per" /\ creator.content.name # ""

RECURSIVE get_presenters_from(_)
get_presenters_from(creators) ==
    IF creators = <<>> THEN <<>>
    ELSE (IF IsPresenter(Head(creators))
          THEN <<Presenter(Head(creators).content.name)>>
          ELSE <<>>) \o get_presenters_from(Tail(creators))

get_presenters(data) == get_presenters_from(data.creator)

\* one iteration of the loop of get_meeting_name_locality: acc is the pair
\* of locals meeting, locality before the iteration
MeetingStep(acc, source) ==
    IF source.qualifier = "conference" /\ source.content # ""
    THEN LET info_match == MEETING_PATTERN_search(source.content)
         IN  IF info_match.matched
             THEN [meeting |-> info_match.meeting,
                   locality |-> IF info_match.hasLocality
                                THEN RStripPeriods(info_match.locality)
                                ELSE acc.locality]
             ELSE acc
    ELSE acc

RECURSIVE MeetingLoop(_, _)
MeetingLoop(acc, sources) ==
    IF sources = <<>> THEN acc
    ELSE MeetingLoop(MeetingStep(acc, Head(sources)), Tail(sources))

get_meeting_name_locality(data) ==
    MeetingLoop([meeting |-> "", locality |-> ""], data.source)

get_relations(data) == NonEmptyContents(data.relation)

RECURSIVE get_description(_)
get_description(relations) ==
    IF relations = <<>> THEN ""
    ELSE ("Related to: " \o Head(relations) \o ".\n")
         \o get_description(Tail(relations))

\* ZoteroPresentation(untl_data): ZoteroItem.__init__, then the subclass's
ZoteroPresentation(data) ==
    LET ml == get_meeting_name_locality(data)
    IN  [about_uri |-> get_about_uri(data),
         title |-> get_title(data),
         subjects |-> get_subjects(data),
         abstract |-> get_abstract(data),
         creation_date |-> get_creation_date(data),
         access |-> get_access(data),
         languages |-> get_languages(data),
         presenters |-> get_presenters(data),
         relations |-> get_relations(data),
         description |-> get_description(get_relations(data)),
         meeting |-> ml.meeting,
         locality |-> ml.locality]

\* ET.SubElement(parent, tag).text = text
TextElement(tag, text) == [tag |-> tag, text |-> text, children |-> <<>>]

\* an element whose text is never assigned
Element(tag, children) == [tag |-> tag, children |-> children]

RECURSIVE TextElements(_, _)
TextElements(tag, texts) ==
    IF texts = <<>> THEN <<>>
    ELSE <<TextElement(tag, Head(texts))>> \o TextElements(tag, Tail(texts))

RECURSIVE PresenterItems(_)
PresenterItems(presenters) ==
    IF presenters = <<>> THEN <<>>
    ELSE <<Element("rdf:li", <<Element("foaf:Person",
              <<TextElement("foaf:surname", Head(presenters).surname),
                TextElement("foaf:givenName", Head(presenters).given_name)>>)>>)>>
         \o PresenterItems(Tail(presenters))

\* the title is appended before the subjects
RecordChildren_titleFirst(self) ==
    <<TextElement("z:itemType", "presentation"),
      Element("dc:publisher", <<Element("foaf:Organization",
          <<Element("vcard:adr", <<Element("vcard:Address",
              <<TextElement("vcard:locality", self.locality)>>)>>)>>)>>),
      Element("z:presenters",
          <<Element("rdf:Seq", PresenterItems(self.presenters))>>),
      TextElement("dc:title", self.title)>>
    \o TextElements("dc:subject", self.subjects)
    \o <<TextElement("dcterms:abstract", self.abstract),
         TextElement("dc:date", self.creation_date)>>
    \o TextElements("z:language", self.languages)
    \o <<Element("dc:identifier", <<Element("dcterms:URI",
             <<TextElement("rdf:value", self.about_uri)>>)>>),
         TextElement("dc:rights", self.access),
         TextElement("dc:description", self.description),
         TextElement("z:meetingName", self.meeting)>>

\* the children of bib:ConferenceProceedings, in the order generate_record
\* appends them
RecordChildren(self) ==
    <<TextElement("z:itemType", "presentation"),
      Element("dc:publisher", <<Element("foaf:Organization",
          <<Element("vcard:adr", <<Element("vcard:Address",
              <<TextElement("vcard:locality", self.locality)>>)>>)>>)>>),
      Element("z:presenters",
          <<Element("rdf:Seq", PresenterItems(self.presenters))>>)>>
    \o TextElements("dc:subject", self.subjects)
    \o <<TextElement("dc:title", self.title),
         TextElement("dcterms:abstract", self.abstract),
         TextElement("dc:date", self.creation_date)>>
    \o TextElements("z:language", self.languages)
    \o <<Element("dc:identifier", <<Element("dcterms:URI",
             <<TextElement("rdf:value", self.about_uri)>>)>>),
         TextElement("dc:rights", self.access),
         TextElement("dc:description", self.description),
         TextElement("z:meetingName", self.meeting)>>

generate_record(self) ==
    [tag |-> "bib:ConferenceProceedings",
     about |-> self.about_uri,
     children |-> RecordChildren(self)]

-----------------------------------------------------------------------------
(* The field bags the extractor is run on *)

Entry(q, c) == [qualifier |-> q, content |-> c]

Creator(t, n) == [qualifier |-> "aut", content |-> [type |-> t, name |-> n]]

SeqsUpTo(S, n) == UNION {[1..k -> S] : k \in 0..n}

EmptyBag ==
    [identifier |-> <<>>, title |-> <<>>, subject |-> <<>>,
     description |-> <<>>, date |-> <<>>, rights |-> <<>>,
     language |-> <<>>, creator |-> <<>>, source |-> <<>>,
     relation |-> <<>>]

IdentifierEntries ==
    {Entry("itemURL", "https://digital.library.unt.edu/ark:/67531/m1/"),
     Entry("itemURL", "https://digital.library.unt.edu/ark:/67531/m2/"),
     Entry("itemURL", ""),
     Entry("ark", "ark:/67531/m1")}

TitleEntries ==
    {Entry("officialtitle", "A Talk"), Entry("officialtitle", "B Talk"),
     Entry("officialtitle", ""), Entry("alternatetitle", "C Talk")}

DescriptionEntries ==
    {Entry("content", "Slides."), Entry("content", "Poster."),
     Entry("content", ""), Entry("physical", "12 p.")}

DateEntries ==
    {Entry("creation", "2020-05-01"), Entry("creation", "circa 2021"),
     Entry("creation", ""), Entry("submitted", "2020-01-01")}

RightsEntries ==
    {Entry("access", "public"), Entry("access", "unt_strict"),
     Entry("access", ""), Entry("license", "by")}

ContentEntries == {Entry("", "one"), Entry("", "two"), Entry("", "")}

CreatorEntries ==
    {Creator("per", "Doe, Jane"), Creator("per", "Smith"),
     Creator("per", " Smith , Jane Q. , Jr"), Creator("per", ""),
     Creator("org", "UNT, Libraries")}

SourceEntries ==
    {Entry("conference", "Foo Conf, Dallas. 2022"),
     Entry("conference",
           "International Conference on Widgets, 2020, Austin, TX."),
     Entry("conference", "Bar Symposium 2021"),
     Entry("conference", "Baz 2019. Waco.. 12"),
     Entry("conference", "Annual meeting"),
     Entry("conference", ""),
     Entry("journal", "Journal of Foo, 1999, Denton")}

\* bags in which one field is present
FocusBags ==
    {[EmptyBag EXCEPT !.identifier = s] :
        s \in SeqsUpTo(IdentifierEntries, MaxEntries)}
    \cup {[EmptyBag EXCEPT !.title = s] :
        s \in SeqsUpTo(TitleEntries, MaxEntries)}
    \cup {[EmptyBag EXCEPT !.description = s] :
        s \in SeqsUpTo(DescriptionEntries, MaxEntries)}
    \cup {[EmptyBag EXCEPT !.date = s] :
        s \in SeqsUpTo(DateEntries, MaxEntries)}
    \cup {[EmptyBag EXCEPT !.rights = s] :
        s \in SeqsUpTo(RightsEntries, MaxEntries)}
    \cup {[EmptyBag EXCEPT !.relation = s] :
        s \in SeqsUpTo(ContentEntries, MaxEntries)}
    \cup {[EmptyBag EXCEPT !.creator = s] :
        s \in SeqsUpTo(CreatorEntries, MaxEntries)}
    \cup {[EmptyBag EXCEPT !.source = s] :
        s \in SeqsUpTo(SourceEntries, MaxEntries)}

\* bags in which the repeated fields of the record vary together
ComboBags ==
    {[EmptyBag EXCEPT !.subject = s, !.language = l, !.creator = c] :
        s \in SeqsUpTo({Entry("", "one"), Entry("", "")}, MaxEntries),
        l \in SeqsUpTo({Entry("", "eng"), Entry("", "")}, MaxEntries),
        c \in SeqsUpTo({Creator("per", "Doe, Jane"),
                        Creator("org", "UNT, Libraries")}, MaxEntries)}

\* the record of the end-to-end example
TalkBag ==
    [EmptyBag EXCEPT
        !.title = <<Entry("officialtitle", "A Talk")>>,
        !.creator = <<Creator("per", "Doe, Jane")>>,
        !.rights = <<Entry("access", "public")>>,
        !.source = <<Entry("conference", "Foo Conf, Dallas. 2022")>>]

InputBags == FocusBags \cup ComboBags \cup {TalkBag}

-----------------------------------------------------------------------------
(* One record through ZoteroPresentation(...) and generate_record() *)

NoRecord == [none |-> TRUE]

NoElement == [none |-> TRUE]

\* a path at which there is no file
NoFile == [exists |-> FALSE]

\* the identity of the list object that is the default of the records
\* parameter of ZoteroXML.__init__ (one object per process)
DefaultList == 0

\* a payload that is not well-formed XML
Malformed == [wellFormed |-> FALSE, records |-> <<>>]

\* a metadata element without a child element
NoChild == [nochild |-> TRUE]

NoArgs == [cache |-> FALSE, year |-> ""]

\* the history of a run: what the run found and did so far
NewRun(n, cache, out) ==
    [n |-> n, cacheAtStart |-> cache, outAtStart |-> out, fetches |-> 0,
     cacheWrites |-> 0, outWrites |-> 0, parsed |-> NoFile, log |-> <<>>]

NoPrev ==
    [status |-> "none", args |-> NoArgs, cacheAtStart |-> NoFile,
     fetches |-> 0, output |-> NoFile]

InitExtractIdle ==
    /\ untl_data = EmptyBag
    /\ record = NoRecord
    /\ presentation = NoElement
    /\ phase = "idle"

\* a fresh interpreter: the default list is empty, no ZoteroXML exists
InitHeap ==
    /\ lists = [l \in {DefaultList} |-> <<>>]
    /\ instances = <<>>
    /\ added = <<>>

InitMainIdle ==
    /\ cacheFile = NoFile
    /\ server = Malformed
    /\ pc = "idle"
    /\ args = NoArgs
    /\ untl_metadata = Malformed
    /\ tree = <<>>
    /\ zotero_xml = 0
    /\ exitCode = -1
    /\ run = NewRun(0, NoFile, NoFile)
    /\ prev = NoPrev

InitExtract ==
    /\ untl_data \in InputBags
    /\ record = NoRecord
    /\ presentation = NoElement
    /\ phase = "input"
    /\ InitHeap
    /\ outFile = NoFile
    /\ InitMainIdle

\* record = ZoteroPresentation(untl_dict)
Extract ==
    /\ phase = "input"
    /\ record' = ZoteroPresentation(untl_data)
    /\ phase' = "extracted"
    /\ UNCHANGED <<untl_data, presentation, heapVars, outFile, mainVars>>

\* presentation = record.generate_record()
Build ==
    /\ phase = "extracted"
    /\ presentation' = generate_record(record)
    /\ phase' = "built"
    /\ UNCHANGED <<untl_data, record, heapVars, outFile, mainVars>>

NextExtract == Extract \/ Build

SpecExtract == InitExtract /\ [][NextExtract]_vars

-----------------------------------------------------------------------------
(* ZoteroXML: the document assembler *)

\* self.records = records, for the list object that was passed (the
\* default one when the caller passes none)
ZoteroXML_init(list) ==
    /\ instances' = Append(instances, [records |-> list])
    /\ added' = Append(added, <<>>)

\* self.records.append(record_element), on instance i
add_item_record(i, record_element) ==
    /\ lists' = [lists EXCEPT ![instances[i].records]
                                  = Append(@, record_element)]
    /\ added' = [added EXCEPT ![i] = Append(@, record_element)]

\* the file write_zotero_xml_file writes for instance i: the RDF root
\* with its six namespace declarations, extended by self.records
Document(i) ==
    [exists |-> TRUE,
     root |-> [tag |-> "rdf:RDF",
               xmlns |-> <<"z", "dc", "vcard", "foaf", "dcterms", "bib">>,
               children |-> lists[instances[i].records]]]

write_zotero_xml_file(i) == outFile' = Document(i)

\* the subtrees handed to an assembler
Subtrees == {generate_record(ZoteroPresentation(b)) : b \in {EmptyBag, TalkBag}}

RECURSIVE TotalLen(_)
TotalLen(seqs) ==
    IF seqs = <<>> THEN 0 ELSE Len(Head(seqs)) + TotalLen(Tail(seqs))

InitAssembler ==
    /\ InitExtractIdle
    /\ InitHeap
    /\ outFile = NoFile
    /\ InitMainIdle

\* ZoteroXML()
NewDefault ==
    /\ Len(instances) < MaxInstances
    /\ ZoteroXML_init(DefaultList)
    /\ UNCHANGED <<lists, outFile, extractVars, mainVars>>

\* ZoteroXML(records=[]): the caller passes a list of its own
NewWithList ==
    /\ Len(instances) < MaxInstances
    /\ LET fresh == Max(DOMAIN lists) + 1
       IN  /\ lists' = [l \in DOMAIN lists \cup {fresh} |->
                           IF l = fresh THEN <<>> ELSE lists[l]]
           /\ ZoteroXML_init(fresh)
    /\ UNCHANGED <<outFile, extractVars, mainVars>>

AddItemRecord ==
    /\ TotalLen(added) < MaxAdds
    /\ \E i \in 1..Len(instances), e \in Subtrees : add_item_record(i, e)
    /\ UNCHANGED <<instances, outFile, extractVars, mainVars>>

WriteZoteroXmlFile ==
    /\ \E i \in 1..Len(instances) : write_zotero_xml_file(i)
    /\ UNCHANGED <<heapVars, extractVars, mainVars>>

NextAssembler ==
    NewDefault \/ NewWithList \/ AddItemRecord \/ WriteZoteroXmlFile

SpecAssembler == InitAssembler /\ [][NextAssembler]_vars

-----------------------------------------------------------------------------
(* main(): one conversion run after another *)

\* runs in one behaviour
MaxRuns == 2

\* the records of the collection
PipelineBags ==
    {[EmptyBag EXCEPT !.date = <<Entry("creation", "2020-05-01")>>],
     [EmptyBag EXCEPT !.date = <<Entry("creation", ""),
                                 Entry("creation", "2020-05-01")>>],
     [EmptyBag EXCEPT !.date = <<Entry("creation", "circa 2021")>>]}

\* what the library may serve: well-formed listings of metadata elements,
\* each with its untl child or without one, or something that is not XML
Payloads ==
    {[wellFormed |-> TRUE, records |-> r] :
        r \in SeqsUpTo(PipelineBags \cup {NoChild}, MaxRecords)}
    \cup {Malformed}

File(payload) == [exists |-> TRUE, data |-> payload]

\* what an earlier run may have left at the cache path
InitialCaches ==
    {NoFile, File(Malformed),
     File([wellFormed |-> TRUE,
           records |-> <<[EmptyBag EXCEPT
               !.date = <<Entry("creation", "2020-05-01")>>]>>])}

ArgSets == [cache : BOOLEAN, year : {"", "2020"}]

\* "and" in the place of "or"
NeedsFetch_and(cacheExists, cacheFlag) == ~cacheExists /\ ~cacheFlag

\* the condition of the if that guards the fetch
NeedsFetch(cacheExists, cacheFlag) == ~cacheExists \/ ~cacheFlag

\* the year filter of the loop: whether the record is skipped
YearSkips(untl_dict, year) ==
    /\ year # ""
    /\ LET hits == Qualified(untl_dict.date, "creation")
       IN  \/ hits = {}
           \/ untl_dict.date[Min(hits)].content = ""
           \/ ~Contains(year, untl_dict.date[Min(hits)].content)

Init ==
    /\ InitExtractIdle
    /\ InitHeap
    /\ outFile = NoFile
    /\ cacheFile \in InitialCaches
    /\ server \in Payloads
    /\ pc = "idle"
    /\ args = NoArgs
    /\ untl_metadata = Malformed
    /\ tree = <<>>
    /\ zotero_xml = 0
    /\ exitCode = -1
    /\ run = NewRun(0, NoFile, NoFile)
    /\ prev = NoPrev

Finished == pc \in {"done", "exited", "crashed"}

\* main() is entered with the parsed arguments a
EnterMain(a) ==
    /\ run.n < MaxRuns
    /\ args' = a
    /\ pc' = "check"
    /\ exitCode' = -1
    /\ untl_metadata' = Malformed
    /\ tree' = <<>>
    /\ zotero_xml' = 0
    /\ run' = NewRun(run.n + 1, cacheFile, outFile)
    /\ prev' = IF run.n = 0 THEN NoPrev
               ELSE [status |-> pc, args |-> args,
                     cacheAtStart |-> run.cacheAtStart,
                     fetches |-> run.fetches, output |-> outFile]
    /\ UNCHANGED <<cacheFile, outFile, server, extractVars>>

\* the script is started: a new interpreter imports the module, which
\* evaluates the def of ZoteroXML.__init__ and its default list
StartProcess ==
    /\ pc = "idle" \/ Finished
    /\ \E a \in ArgSets : EnterMain(a)
    /\ lists' = [l \in {DefaultList} |-> <<>>]
    /\ instances' = <<>>
    /\ added' = <<>>

\* main() is called again in the interpreter in which it returned
CallMain ==
    /\ pc = "done"
    /\ \E a \in ArgSets : EnterMain(a)
    /\ UNCHANGED heapVars

CheckCache ==
    /\ pc = "check"
    /\ pc' = IF NeedsFetch(cacheFile.exists, args.cache) THEN "fetch"
             ELSE "parse"
    /\ UNCHANGED <<cacheFile, outFile, server, args, untl_metadata, tree,
                   zotero_xml, exitCode, run, prev, heapVars, extractVars>>

\* get_untl_collection: urlopen(...).read() returns
FetchReturns ==
    /\ pc = "fetch"
    /\ untl_metadata' = server
    /\ run' = [run EXCEPT !.fetches = @ + 1]
    /\ pc' = "store"
    /\ UNCHANGED <<cacheFile, outFile, server, args, tree, zotero_xml,
                   exitCode, prev, heapVars, extractVars>>

\* get_untl_collection: urlopen raises, sys.exit(message)
FetchFails ==
    /\ pc = "fetch"
    /\ run' = [run EXCEPT !.fetches = @ + 1]
    /\ pc' = "exited"
    /\ exitCode' = 1
    /\ UNCHANGED <<cacheFile, outFile, server, args, untl_metadata, tree,
                   zotero_xml, prev, heapVars, extractVars>>

\* the fetched payload replaces the cache file
StoreCache ==
    /\ pc = "store"
    /\ cacheFile' = File(untl_metadata)
    /\ run' = [run EXCEPT !.cacheWrites = @ + 1]
    /\ pc' = "parse"
    /\ UNCHANGED <<outFile, server, args, untl_metadata, tree, zotero_xml,
                   exitCode, prev, heapVars, extractVars>>

\* ET.parse(cache file), then zotero_xml = ZoteroXML(); a parse error is
\* not caught
ParseCache ==
    /\ pc = "parse"
    /\ run' = [run EXCEPT !.parsed = cacheFile]
    /\ IF cacheFile.data.wellFormed
       THEN /\ tree' = cacheFile.data.records
            /\ ZoteroXML_init(DefaultList)
            /\ zotero_xml' = Len(instances) + 1
            /\ pc' = "loop"
            /\ UNCHANGED exitCode
       ELSE /\ pc' = "crashed"
            /\ exitCode' = 1
            /\ UNCHANGED <<tree, zotero_xml, instances, added>>
    /\ UNCHANGED <<lists, cacheFile, outFile, server, args, untl_metadata,
                   prev, extractVars>>

\* the call of write_zotero_xml_file is inside the loop body
LoopStep_writesEach ==
    /\ pc = "loop"
    /\ tree # <<>>
    /\ LET child == Head(tree)
       IN  IF child = NoChild
           THEN /\ pc' = "crashed"
                /\ exitCode' = 1
                /\ UNCHANGED <<tree, run, heapVars, outFile>>
           ELSE /\ tree' = Tail(tree)
                /\ IF YearSkips(child, args.year)
                   THEN /\ run' = [run EXCEPT !.log = Append(@,
                                      [untl_dict |-> child, kept |-> FALSE])]
                        /\ UNCHANGED <<heapVars, outFile>>
                   ELSE /\ add_item_record(zotero_xml,
                              generate_record(ZoteroPresentation(child)))
                        /\ outFile' = [exists |-> TRUE,
                              root |-> [tag |-> "rdf:RDF",
                                  xmlns |-> <<"z", "dc", "vcard", "foaf",
                                              "dcterms", "bib">>,
                                  children |->
                                      lists'[instances[zotero_xml].records]]]
                        /\ run' = [run EXCEPT
                              !.log = Append(@, [untl_dict |-> child,
                                                 kept |-> TRUE]),
                              !.outWrites = @ + 1]
                        /\ UNCHANGED instances
                /\ UNCHANGED <<pc, exitCode>>
    /\ UNCHANGED <<cacheFile, server, args, untl_metadata, zotero_xml, prev,
                   extractVars>>

\* one iteration of the for loop over the metadata elements; child[0] of
\* an element without children raises, uncaught
LoopStep ==
    /\ pc = "loop"
    /\ tree # <<>>
    /\ LET child == Head(tree)
       IN  IF child = NoChild
           THEN /\ pc' = "crashed"
                /\ exitCode' = 1
                /\ UNCHANGED <<tree, run, heapVars>>
           ELSE /\ tree' = Tail(tree)
                /\ IF YearSkips(child, args.year)
                   THEN /\ run' = [run EXCEPT !.log = Append(@,
                                      [untl_dict |-> child, kept |-> FALSE])]
                        /\ UNCHANGED heapVars
                   ELSE /\ add_item_record(zotero_xml,
                              generate_record(ZoteroPresentation(child)))
                        /\ run' = [run EXCEPT !.log = Append(@,
                                      [untl_dict |-> child, kept |-> TRUE])]
                        /\ UNCHANGED instances
                /\ UNCHANGED <<pc, exitCode>>
    /\ UNCHANGED <<cacheFile, outFile, server, args, untl_metadata,
                   zotero_xml, prev, extractVars>>

\* zotero_xml.write_zotero_xml_file(args.output) after the loop; main
\* returns and the script exits with status 0
WriteOutput ==
    /\ pc = "loop"
    /\ tree = <<>>
    /\ write_zotero_xml_file(zotero_xml)
    /\ run' = [run EXCEPT !.outWrites = @ + 1]
    /\ pc' = "done"
    /\ exitCode' = 0
    /\ UNCHANGED <<cacheFile, server, args, untl_metadata, tree, zotero_xml,
                   prev, heapVars, extractVars>>

\* the output path cannot be opened for writing: uncaught
WriteFails ==
    /\ pc = "loop"
    /\ tree = <<>>
    /\ pc' = "crashed"
    /\ exitCode' = 1
    /\ UNCHANGED <<cacheFile, outFile, server, args, untl_metadata, tree,
                   zotero_xml, run, prev, heapVars, extractVars>>

Next ==
    \/ StartProcess
    \/ CallMain
    \/ CheckCache
    \/ FetchReturns
    \/ FetchFails
    \/ StoreCache
    \/ ParseCache
    \/ LoopStep
    \/ WriteOutput
    \/ WriteFails

Spec == Init /\ [][Next]_vars

-----------------------------------------------------------------------------
(* Properties of the extractor and the builder, under SpecExtract *)

Extracted == phase \in {"extracted", "built"}

\* the first entry with qualifier q, empty or not: its content, "" if none
FirstQualified(entries, q) ==
    IF Qualified(entries, q) = {} THEN ""
    ELSE entries[Min(Qualified(entries, q))].content

\* v is the content of the first entry with qualifier q and non-empty
\* content, and "" when there is none
IsFirstNonEmpty(v, entries, q) ==
    \/ /\ v = ""
       /\ \A i \in 1..Len(entries) :
             entries[i].qualifier = q => entries[i].content = ""
    \/ \E i \in 1..Len(entries) :
          /\ entries[i].qualifier = q
          /\ entries[i].content # ""
          /\ v = entries[i].content
          /\ \A j \in 1..(i - 1) :
                entries[j].qualifier = q => entries[j].content = ""

\* v is the content of the last entry with qualifier q, empty or not, and
\* "" when there is none
IsLastQualified(v, entries, q) ==
    \/ /\ v = ""
       /\ \A i \in 1..Len(entries) : entries[i].qualifier # q
    \/ \E i \in 1..Len(entries) :
          /\ entries[i].qualifier = q
          /\ v = entries[i].content
          /\ \A j \in (i + 1)..Len(entries) : entries[j].qualifier # q

\* C2 as stated: title, abstract, creationDate and access come from the
\* first entry with the matching qualifier even when its content is empty
\* (access through the fixed table), and aboutUri from the last itemURL
\* entry even when its content is empty.
C2_FirstMatchEvenIfEmpty ==
    Extracted =>
        /\ record.title = FirstQualified(untl_data.title, "officialtitle")
        /\ record.abstract = FirstQualified(untl_data.description, "content")
        /\ record.creation_date = FirstQualified(untl_data.date, "creation")
        /\ record.access
              = ACCESS_get(FirstQualified(untl_data.rights, "access"))
        /\ IsLastQualified(record.about_uri, untl_data.identifier, "itemURL")

\* C2 amended: title, abstract, creationDate and access come from the first
\* entry whose qualifier matches and whose content is non-empty (entries
\* with empty content are skipped; access goes through the fixed table),
\* and are "" when there is no such entry; aboutUri is the content of the
\* last itemURL entry even when that content is empty, "" when none.
C2_FirstNonEmptyMatch ==
    Extracted =>
        /\ IsFirstNonEmpty(record.title, untl_data.title, "officialtitle")
        /\ IsFirstNonEmpty(record.abstract, untl_data.description, "content")
        /\ IsFirstNonEmpty(record.creation_date, untl_data.date, "creation")
        /\ \E a \in {""} \cup {untl_data.rights[i].content :
                                  i \in 1..Len(untl_data.rights)} :
              /\ IsFirstNonEmpty(a, untl_data.rights, "access")
              /\ record.access = IF a = "public" THEN ACCESS_public ELSE a
        /\ IsLastQualified(record.about_uri, untl_data.identifier, "itemURL")

\* an empty officialtitle entry precedes a non-empty one and was skipped
C2_Witness ==
    /\ Extracted
    /\ Len(untl_data.title) = 2
    /\ untl_data.title[1] = Entry("officialtitle", "")
    /\ untl_data.title[2] = Entry("officialtitle", "B Talk")
    /\ record.title = "B Talk"

\* the conference entries with non-empty content
ConferenceIdx ==
    {i \in 1..Len(untl_data.source) :
        /\ untl_data.source[i].qualifier = "conference"
        /\ untl_data.source[i].content # ""}

\* C4: meeting and locality both come from the last conference entry with
\* non-empty content: its matched meeting text and its own locality group
\* without trailing periods ("" if the group did not take part), and both
\* are "" if that entry does not match; nothing is carried over from an
\* earlier entry.
C4_LastConferenceDecides ==
    Extracted =>
        IF ConferenceIdx = {}
        THEN record.meeting = "" /\ record.locality = ""
        ELSE LET m == MEETING_PATTERN_search(
                          untl_data.source[Max(ConferenceIdx)].content)
             IN  IF m.matched
                 THEN /\ record.meeting = m.meeting
                      /\ record.locality = IF m.hasLocality
                                           THEN RStripPeriods(m.locality)
                                           ELSE ""
                 ELSE record.meeting = "" /\ record.locality = ""

\* the text of the child of elem with the given tag
ChildText(elem, tag) ==
    elem.children[CHOOSE i \in 1..Len(elem.children) :
                      elem.children[i].tag = tag].text

\* the presenters of a built record, read from its z:presenters/rdf:Seq
BuiltPresenters(elem) ==
    LET seq == elem.children[CHOOSE i \in 1..Len(elem.children) :
                   elem.children[i].tag = "z:presenters"].children[1]
    IN  [k \in 1..Len(seq.children) |->
            [surname |-> seq.children[k].children[1].children[1].text,
             givenName |-> seq.children[k].children[1].children[2].text]]

\* the locality of a built record, read from its publisher skeleton
BuiltLocality(elem) ==
    elem.children[CHOOSE i \in 1..Len(elem.children) :
        elem.children[i].tag = "dc:publisher"]
        .children[1].children[1].children[1].children[1].text

TalkBuilt == phase = "built" /\ untl_data = TalkBag

\* the part of the end-to-end example that does not involve the pattern
TalkCommon ==
    /\ ChildText(presentation, "dc:title") = "A Talk"
    /\ BuiltPresenters(presentation)
          = <<[surname |-> "Doe", givenName |-> "Jane"]>>
    /\ ChildText(presentation, "dc:rights")
          = "https://digital2.library.unt.edu/vocabularies/rights-access/#public"

\* C5 as stated: the example record is built with title "A Talk", the one
\* presenter {Doe, Jane}, the mapped public-rights URI, locality "Dallas"
\* and meeting name "Foo Conf, 2022".
C5_TalkSplit ==
    TalkBuilt =>
        /\ TalkCommon
        /\ BuiltLocality(presentation) = "Dallas"
        /\ ChildText(presentation, "z:meetingName") = "Foo Conf, 2022"

\* C5 amended: the example record is built with title "A Talk", the one
\* presenter {Doe, Jane}, the mapped public-rights URI, an empty locality
\* and the whole text "Foo Conf, Dallas. 2022" as meeting name.
C5_TalkWhole ==
    TalkBuilt =>
        /\ TalkCommon
        /\ BuiltLocality(presentation) = ""
        /\ ChildText(presentation, "z:meetingName") = "Foo Conf, Dallas. 2022"

C5_Witness == TalkBuilt /\ Len(presentation.children) > 0

\* the k-th smallest element of a set of numbers
Kth(S, k) == CHOOSE i \in S : Cardinality({j \in S : j <= i}) = k

\* p is name split on its first comma, both parts trimmed
IsSplitName(p, name) ==
    IF \A c \in 1..Len(name) : Ch(name, c) # ","
    THEN p.surname = Strip(name) /\ p.given_name = ""
    ELSE \E c \in 1..Len(name) :
            /\ Ch(name, c) = ","
            /\ \A d \in 1..(c - 1) : Ch(name, d) # ","
            /\ p.surname = Strip(SubSeq(name, 1, c - 1))
            /\ p.given_name = Strip(SubSeq(name, c + 1, Len(name)))

\* presenters holds one split name per creator whose index is in idx
PresentersAre(idx) ==
    /\ Len(record.presenters) = Cardinality(idx)
    /\ \A k \in 1..Len(record.presenters) :
          IsSplitName(record.presenters[k],
                      untl_data.creator[Kth(idx, k)].content.name)

\* C7 as stated: one presenter per creator of type "per", in order, also
\* for a person whose name is empty, and none for other creators.
C7_OnePerPerson ==
    Extracted =>
        PresentersAre({i \in 1..Len(untl_data.creator) :
                          untl_data.creator[i].content.type = "per"})

\* C7 amended: one presenter per creator of type "per" whose name is
\* non-empty, in creator order, and none for any other creator (a person
\* with an empty name is skipped); each is the name split on its first
\* comma into trimmed surname and trimmed givenName, "" without a comma.
C7_OnePerNamedPerson ==
    Extracted =>
        PresentersAre({i \in 1..Len(untl_data.creator) :
                          /\ untl_data.creator[i].content.type = "per"
                          /\ untl_data.creator[i].content.name # ""})

\* a person with an empty name was skipped and a name with two commas split
C7_Witness ==
    /\ Extracted
    /\ Len(untl_data.creator) = 2
    /\ untl_data.creator[1] = Creator("per", "")
    /\ untl_data.creator[2] = Creator("per", " Smith , Jane Q. , Jr")
    /\ record.presenters
          = <<[surname |-> "Smith", given_name |-> "Jane Q. , Jr"]>>

\* the children of a built record are the fixed elements, the subjects and
\* the languages at their places, each with the value of the record
ChildOrderHolds ==
    LET c == presentation.children
        ns == Len(record.subjects)
        nl == Len(record.languages)
        seq == c[3].children[1]
    IN  /\ c[1] = [tag |-> "z:itemType", text |-> "presentation",
                   children |-> <<>>]
        /\ c[2].tag = "dc:publisher"
        /\ c[2].children[1].tag = "foaf:Organization"
        /\ c[2].children[1].children[1].tag = "vcard:adr"
        /\ c[2].children[1].children[1].children[1].tag = "vcard:Address"
        /\ c[2].children[1].children[1].children[1].children
              = <<[tag |-> "vcard:locality", text |-> record.locality,
                   children |-> <<>>]>>
        /\ c[3].tag = "z:presenters"
        /\ Len(c[3].children) = 1
        /\ seq.tag = "rdf:Seq"
        /\ Len(seq.children) = Len(record.presenters)
        /\ \A k \in 1..Len(seq.children) :
              /\ seq.children[k].tag = "rdf:li"
              /\ seq.children[k].children[1].tag = "foaf:Person"
              /\ seq.children[k].children[1].children[1].text
                    = record.presenters[k].surname
              /\ seq.children[k].children[1].children[2].text
                    = record.presenters[k].given_name
        /\ \A k \in 1..ns :
              c[3 + k].tag = "dc:subject"
              /\ c[3 + k].text = record.subjects[k]
        /\ c[4 + ns].tag = "dc:title" /\ c[4 + ns].text = record.title
        /\ c[5 + ns].tag = "dcterms:abstract"
        /\ c[5 + ns].text = record.abstract
        /\ c[6 + ns].tag = "dc:date"
        /\ c[6 + ns].text = record.creation_date
        /\ \A k \in 1..nl :
              c[6 + ns + k].tag = "z:language"
              /\ c[6 + ns + k].text = record.languages[k]
        /\ c[7 + ns + nl].tag = "dc:identifier"
        /\ c[7 + ns + nl].children[1].children[1].text = record.about_uri
        /\ c[8 + ns + nl].tag = "dc:rights"
        /\ c[8 + ns + nl].text = record.access
        /\ c[9 + ns + nl].tag = "dc:description"
        /\ c[9 + ns + nl].text = record.description
        /\ c[10 + ns + nl].tag = "z:meetingName"
        /\ c[10 + ns + nl].text = record.meeting

\* C9 as stated: the children of a built record are in the fixed order and
\* there are 9 + |subjects| + |languages| of them.
C9_NineFixedChildren ==
    phase = "built" =>
        /\ ChildOrderHolds
        /\ Len(presentation.children)
              = 9 + Len(record.subjects) + Len(record.languages)

\* C9 amended: the children of a built record are, in this order, the item
\* type "presentation", the publisher skeleton down to locality, the
\* presenters list with one person per presenter, one element per subject,
\* title, abstract, creation date, one element per language, the identifier
\* block, rights, description and meeting name, all present even when
\* empty: 10 + |subjects| + |languages| children.
C9_TenFixedChildren ==
    phase = "built" =>
        /\ ChildOrderHolds
        /\ Len(presentation.children)
              = 10 + Len(record.subjects) + Len(record.languages)

\* a record with subjects and languages but no presenter and no title
C9_Witness ==
    /\ phase = "built"
    /\ Len(record.subjects) = 2
    /\ Len(record.languages) = 1
    /\ record.presenters = <<>>
    /\ record.title = ""
    /\ Len(presentation.children) = 13

-----------------------------------------------------------------------------
(* Properties of the assembler, under SpecAssembler *)

\* C3: every ZoteroXML object owns its sequence: the sequence of an
\* instance holds exactly the subtrees added to that instance, in the order
\* of addition (so an instance nothing was added to has an empty sequence
\* and writes a root without children).
C3_OwnSequence ==
    \A i \in 1..Len(instances) : lists[instances[i].records] = added[i]

-----------------------------------------------------------------------------
(* Properties of main(), under Spec *)

\* C1: with a year filter, a record is kept if and only if the creation
\* date get_creation_date derives for it is non-empty and contains the
\* filter string.
C1_FilterUsesExtractedDate ==
    args.year # "" =>
        \A k \in 1..Len(run.log) :
            run.log[k].kept
                <=> /\ get_creation_date(run.log[k].untl_dict) # ""
                    /\ Contains(args.year,
                                get_creation_date(run.log[k].untl_dict))

\* the run found a cache file and was asked to use it
SkipsFetch == args.cache /\ run.cacheAtStart.exists

C8_Idempotent ==
    ( /\ pc = "done"
      /\ prev.status = "done"
      /\ args.cache
      /\ prev.args = args
      /\ run.cacheAtStart.exists
      /\ prev.cacheAtStart = run.cacheAtStart )
    => /\ run.fetches = 0
       /\ prev.fetches = 0
       /\ outFile = prev.output

\* C10: once the run has decided, it skipped the fetch and left the cache
\* file alone if and only if the cache flag is set and the cache file
\* existed; otherwise it fetches exactly once and, the fetch having
\* returned, the cache file holds the fetched payload before anything is
\* parsed; what is parsed is the content of the cache file.
C10_FetchCacheDecision ==
    pc \notin {"idle", "check"} =>
        /\ SkipsFetch =>
              /\ run.fetches = 0
              /\ run.cacheWrites = 0
              /\ cacheFile = run.cacheAtStart
        /\ ~SkipsFetch =>
              /\ run.fetches = IF pc = "fetch" THEN 0 ELSE 1
              /\ pc \in {"fetch", "store", "exited"} =>
                    /\ run.cacheWrites = 0
                    /\ cacheFile = run.cacheAtStart
                    /\ ~run.parsed.exists
                    /\ run.log = <<>>
              /\ pc \notin {"fetch", "store", "exited"} =>
                    /\ run.cacheWrites = 1
                    /\ untl_metadata = server
                    /\ cacheFile = File(untl_metadata)
        /\ run.parsed.exists => run.parsed = cacheFile
        /\ pc \in {"loop", "done"} =>
              /\ cacheFile.data.wellFormed
              /\ Len(run.log) + Len(tree) = Len(cacheFile.data.records)
              /\ \A k \in 1..Len(run.log) :
                    run.log[k].untl_dict = cacheFile.data.records[k]
              /\ \A k \in 1..Len(tree) :
                    tree[k] = cacheFile.data.records[Len(run.log) + k]

\* the cache flag was set but there was no cache file: the run fetched,
\* stored the payload and parsed its records from the cache file
C10_Witness ==
    /\ pc = "done"
    /\ args.cache
    /\ ~run.cacheAtStart.exists
    /\ run.fetches = 1
    /\ cacheFile = File(server)
    /\ Len(run.log) = 2

====
